---- MODULE Spec2Model ----
(***************************************************************************)
(* Model of the worker pool of src/src/thread.rs: ThreadPool::new,         *)
(* ThreadPool::execute, Drop for ThreadPool and the loop of Worker::new,   *)
(* over std::sync::mpsc::channel and Arc<Mutex<Receiver<Job>>>.            *)
(*                                                                         *)
(* The bodies of execute and drop are modelled for every value of the      *)
(* fields they read: `sender` is an Option and every `thread` is an Option *)
(* so that the bodies are defined after a first drop has taken them.       *)
(* The info! lines of the pool write a log line and change no pool state;  *)
(* they are folded into the step they follow.                              *)
(***************************************************************************)
EXTENDS Naturals, Sequences, FiniteSets, TLC

\* ---------------------------------------------------------------- bounds
MaxSize == 2          \* largest size passed to ThreadPool::new
MaxJobs == 3          \* most jobs accepted by execute in one run
MaxDrops == 2         \* most times the body of drop is run on one pool
MaxFailedCalls == 1   \* most calls of execute that panic in one run
MaxLineLen == 5       \* most words and whitespace runs in a request line
MaxAdds == 2          \* most add_route calls on one router
MaxLogThreads == 2    \* most threads that call the logging macros
MaxLogCalls == 2      \* most logging calls made by one thread

WorkerIds == 0 .. (MaxSize - 1)
JobIds == 1 .. MaxJobs
NoJob == 0
NoWorker == MaxSize
JobKinds == {"returns", "panics"}

VARIABLES
    poolPc,     \* where the owner of the pool is: none, newPanicked, new, alive,
                \* dropVisit, dropJoin, dropped, dropPanicked
    size,       \* the argument of ThreadPool::new
    sender,     \* ThreadPool.sender: "Some" or "None"
    thread,     \* Worker.thread of worker i: "Some", "None", "absent" (no such worker)
    dropIdx,    \* position of drop's loop over self.workers
    dropCalls,  \* how many times drop's body was entered
    pendingAtDrop, \* history: jobs buffered or held by a worker when drop first began
    queue,      \* the channel's buffer: job ids, oldest first
    rxLock,     \* holder of the Mutex around the Receiver, or NoWorker
    rxPoisoned, \* the Mutex was poisoned by a panic of its holder
    pc,         \* position of each worker thread in its loop
    message,    \* each worker's local `message`: "none", "ok", "err"
    cur,        \* the job a worker received and has not finished, or NoJob
    nsub,       \* number of jobs accepted by execute (their ids are 1..nsub)
    kind,       \* what each accepted job does when called
    runs,       \* how many times each job was called
    done,       \* jobs whose call returned
    failed,     \* jobs whose call panicked
    discarded,  \* jobs destroyed uncalled with the Receiver
    lastExec,   \* outcome of the latest execute call: "none", "ok", "panic"
    lastExecAt, \* poolPc at the latest execute call
    nfail,      \* number of execute calls that panicked
    routes,     \* Router.routes: the HashMap from path to Route {method, handler}
    adds,       \* history: the add_route calls made so far, oldest first
    lookup,     \* the latest get_route call and what it returned
    mainPc,     \* main: number of routes main has configured (main.rs:169-173)
    connPc,     \* the connection at hand: "open" (accepted, unhandled) or "closed"
    line,       \* what the client sent as first line: words and whitespace runs
    connIn,     \* what the environment did to the connection: peer_addr, read,
                \* file read and write outcomes
    resp,       \* what handle_connection did: status line, file, body, responses
                \* written, router consulted, returned value
    lpc,        \* where each logging thread is in its debug!/info!/warn!/error! call
    call,       \* each thread's latest logging call: its level, whether its
                \* writeln! succeeds, and what it has written so far
    ncalls,     \* number of logging calls each thread has made
    loggerLock, \* holder of the Mutex of the global LOGGER, or NoThread
    streamLock, \* holder of Logger.stdout's and of Logger.stderr's Mutex
    partial,    \* per stream: the threads whose fragments make up the line
                \* that has no end-of-line yet
    torn        \* per stream: some line was made of more than one call's output

poolVars == <<poolPc, size, sender, thread, dropIdx, dropCalls, pendingAtDrop>>
chanVars == <<queue, rxLock, rxPoisoned>>
workerVars == <<pc, message, cur>>
jobVars == <<nsub, kind, runs, done, failed, discarded>>
callVars == <<lastExec, lastExecAt, nfail>>
routerVars == <<routes, adds, lookup>>
connVars == <<mainPc, connPc, line, connIn, resp>>
logVars == <<lpc, call, ncalls, loggerLock, streamLock, partial, torn>>
extVars == <<routerVars, connVars, logVars>>
poolAll == <<poolVars, chanVars, workerVars, jobVars, callVars>>
nonRouterVars == <<poolAll, connVars, logVars>>
nonConnVars == <<poolAll, logVars>>
nonLogVars == <<poolAll, routerVars, connVars>>
vars == <<poolVars, chanVars, workerVars, jobVars, callVars, extVars>>

\* ------------------------------------------------------------ helpers
Range(s) == {s[i] : i \in 1 .. Len(s)}

Terminated(w) == pc[w] \in {"exited", "panicked"}

Spawned == {w \in WorkerIds : pc[w] # "unspawned"}

\* The Receiver lives while some clone of the Arc does: the constructor's own
\* clone until new returns, and one clone per worker thread that still runs.
ReceiverAliveWith(p, poolState) ==
    \/ poolState = "new"
    \/ \E w \in WorkerIds : p[w] \notin {"unspawned", "exited", "panicked"}

ReceiverAlive == ReceiverAliveWith(pc, poolPc)

\* Jobs accepted and not yet finished: buffered, or held by a worker.
Pending == Len(queue) + Cardinality({w \in WorkerIds : cur[w] # NoJob})

\* The channel is disconnected for receivers once the only Sender is dropped.
SenderAlive == sender = "Some"

\* ------------------------------------------------------------- Router
\* router.rs: routes are stored in a HashMap keyed by the path String; the
\* method is a field of the stored Route. Strings compare byte for byte.
Methods == {"GET", "POST", "get"}
Paths == {"/", "/sleep", "/contact", "/Contact"}
Handlers == {"index.html", "contact.html"}
NotFound == "none"
NoRoute == [method |-> "none", handler |-> "none"]

\* router.rs:22-27 Router::new: an empty map.
RouterInit ==
    /\ routes = [p \in Paths |-> NoRoute]
    /\ adds = <<>>
    /\ lookup = [method |-> "none", path |-> "none", result |-> NotFound]

\* Mutant of add_route: the map keeps the route a path already has
\* (entry(path).or_insert(..) in place of insert).
add_route_KeepFirst(m, p, h) ==
    /\ Len(adds) < MaxAdds
    /\ routes' = IF routes[p] = NoRoute
                   THEN [routes EXCEPT ![p] = [method |-> m, handler |-> h]]
                   ELSE routes
    /\ adds' = Append(adds, [method |-> m, path |-> p, handler |-> h])
    /\ UNCHANGED lookup

\* router.rs:29-35 add_route: HashMap::insert replaces the value the path had.
add_route(m, p, h) ==
    /\ Len(adds) < MaxAdds
    /\ routes' = [routes EXCEPT ![p] = [method |-> m, handler |-> h]]
    /\ adds' = Append(adds, [method |-> m, path |-> p, handler |-> h])
    /\ UNCHANGED lookup

\* Mutant of get_route: the stored method is not compared.
get_route_IgnoreMethod(m, p) ==
    IF p \notin DOMAIN routes \/ routes[p] = NoRoute
      THEN NotFound
      ELSE routes[p].handler

\* router.rs:37-49 get_route: the Route stored under the path, if its method
\* equals the one asked for; the value is what the handler returns.
get_route(m, p) ==
    IF p \notin DOMAIN routes \/ routes[p] = NoRoute
      THEN NotFound
      ELSE IF routes[p].method = m THEN routes[p].handler ELSE NotFound

\* A call of get_route, as main.rs:145 and the tests of router.rs make it.
GetRouteCall(m, p) ==
    /\ lookup' = [method |-> m, path |-> p, result |-> get_route(m, p)]
    /\ UNCHANGED <<routes, adds>>
    /\ UNCHANGED nonRouterVars

\* A call of add_route, as main.rs:169-173 and the tests of router.rs make it.
AddRouteCall(m, p, h) ==
    /\ add_route(m, p, h)
    /\ UNCHANGED nonRouterVars

\* ------------------------------------------------- connection handler
\* The first line of a request, as the maximal runs it is made of: words
\* and runs of whitespace (" "), never two words in a row.
Words == {"GET", "POST", "/", "/contact", "HTTP/1.1", "HTTP/1.0"}
Symbols == Words \cup {" "}
StatusOk == "HTTP/1.1 200 OK"
StatusBadRequest == "HTTP/1.1 400 Bad Request"
StatusNotFound == "HTTP/1.1 404 Not Found"
NoResponse == [status |-> "none", file |-> "none", body |-> "none",
               written |-> 0, consulted |-> FALSE, result |-> "none"]
NoInput == [peer |-> TRUE, read |-> "line", fileOk |-> TRUE, writeOk |-> TRUE]

ConnInit ==
    /\ mainPc = 0
    /\ connPc = "open"
    /\ line = <<>>
    /\ connIn = NoInput
    /\ resp = NoResponse

\* main.rs:21-29 get_status_line_and_file_from_http_status.
get_status_line_and_file_from_http_status(error) ==
    IF error = "InvalidRequest"
      THEN <<StatusBadRequest, "400.html">>
      ELSE <<StatusNotFound, "404.html">>

\* str::split_whitespace (main.rs:73): the words of the line, in order.
IsWord(x) == x # " "
split_whitespace(l) == SelectSeq(l, IsWord)

\* Mutant of validate_request: the version is not checked.
validate_request_AnyVersion(read, l) ==
    IF read # "line"
      THEN "InvalidRequest"
      ELSE LET parts == split_whitespace(l) IN
           IF Len(parts) # 3 THEN "InvalidRequest"
           ELSE IF parts[1] # "GET" THEN "InvalidRequest"
           ELSE parts

\* main.rs:57-91 validate_request: no line (None) or an unreadable one
\* (Err) is InvalidRequest; so is a line of other than three words, a method
\* other than GET, a version other than HTTP/1.1; else Ok((method, uri,
\* version)).
validate_request(read, l) ==
    IF read # "line"
      THEN "InvalidRequest"
      ELSE LET parts == split_whitespace(l) IN
           IF Len(parts) # 3 THEN "InvalidRequest"
           ELSE IF parts[1] # "GET" THEN "InvalidRequest"
           ELSE IF parts[3] # "HTTP/1.1" THEN "InvalidRequest"
           ELSE parts

\* main.rs:93-105 get_file_contents: the file, or the 500 page when the
\* file cannot be read.
get_file_contents(file, fileOk) == IF fileOk THEN file ELSE "500 page"

\* main.rs:168-174: main registers GET / and GET /sleep, both index.html.
MainAddRoute ==
    /\ mainPc < 2
    /\ add_route("GET", IF mainPc = 0 THEN "/" ELSE "/sleep", "index.html")
    /\ mainPc' = mainPc + 1
    /\ UNCHANGED <<connPc, line, connIn, resp>>
    /\ UNCHANGED nonConnVars

\* The client's first line arrives: one more word or whitespace run.
ClientSends(x) ==
    /\ mainPc = 2
    /\ connPc = "open"
    /\ Len(line) < MaxLineLen
    /\ (line # <<>> /\ IsWord(line[Len(line)])) => ~IsWord(x)
    /\ line' = Append(line, x)
    /\ UNCHANGED <<mainPc, connPc, connIn, resp>>
    /\ UNCHANGED <<nonConnVars, routerVars>>

\* main.rs:119-161 handle_connection. peer_addr()? returns Err before
\* anything is read or written; an invalid request is answered with the 400
\* page without the router; else the router decides between the handler's
\* file with 200 and the 404 page; write_all(..)? returns Err when the
\* response cannot be written.
handle_connection(peer, read, fileOk, writeOk) ==
    LET v == validate_request(read, line)
        sf == IF v = "InvalidRequest"
                THEN get_status_line_and_file_from_http_status("InvalidRequest")
                ELSE IF get_route(v[1], v[2]) # NotFound
                       THEN <<StatusOk, get_route(v[1], v[2])>>
                       ELSE get_status_line_and_file_from_http_status("NotFound")
    IN  IF ~peer
          THEN [NoResponse EXCEPT !.result = "Err"]
          ELSE [status |-> sf[1],
                file |-> sf[2],
                body |-> get_file_contents(sf[2], fileOk),
                written |-> IF writeOk THEN 1 ELSE 0,
                consulted |-> (v # "InvalidRequest"),
                result |-> IF writeOk THEN "Ok" ELSE "Err"]

\* main.rs:195-199: the job of a connection runs handle_connection once.
HandleConnection(peer, read, fileOk, writeOk) ==
    /\ mainPc = 2
    /\ connPc = "open"
    /\ (read = "eof" => line = <<>>)
    /\ connIn' = [peer |-> peer, read |-> read, fileOk |-> fileOk, writeOk |-> writeOk]
    /\ resp' = handle_connection(peer, read, fileOk, writeOk)
    /\ connPc' = "closed"
    /\ UNCHANGED <<mainPc, line>>
    /\ UNCHANGED <<nonConnVars, routerVars>>

\* ------------------------------------------------------------ the logger
\* logger/global.rs and logger/log.rs: the threads that call the logging
\* macros, the levels, and the two streams of the global Logger.
LogThreads == 1 .. MaxLogThreads
NoThread == 0
Levels == {"DEBUG", "INFO", "WARNING", "ERROR"}
Streams == {"stdout", "stderr"}
NoCall == [level |-> "none", writeOk |-> TRUE,
           lines |-> [s \in Streams |-> 0], notices |-> 0]

\* global.rs:7-9 and log.rs:18-23: LOGGER and the Mutex of each stream are
\* unlocked, and nothing has been written.
LogInit ==
    /\ lpc = [t \in LogThreads |-> "idle"]
    /\ call = [t \in LogThreads |-> NoCall]
    /\ ncalls = [t \in LogThreads |-> 0]
    /\ loggerLock = NoThread
    /\ streamLock = [s \in Streams |-> NoThread]
    /\ partial = [s \in Streams |-> <<>>]
    /\ torn = [s \in Streams |-> FALSE]

\* Mutant of StreamOf: every level is written to self.stdout.
StreamOf_AllStdout(level) == "stdout"

\* log.rs:26-31: the stream whose Mutex log locks for a level.
StreamOf(level) ==
    CASE level = "DEBUG" -> "stdout"
      [] level = "INFO" -> "stdout"
      [] level = "WARNING" -> "stdout"
      [] level = "ERROR" -> "stderr"

\* global.rs:12-38: a thread reaches one of the macros; the level is the
\* macro's, and writeOk is whether the stream will accept the line.
LogCall(t, level, writeOk) ==
    /\ lpc[t] = "idle"
    /\ ncalls[t] < MaxLogCalls
    /\ ncalls' = [ncalls EXCEPT ![t] = @ + 1]
    /\ call' = [call EXCEPT ![t] = [NoCall EXCEPT !.level = level,
                                                  !.writeOk = writeOk]]
    /\ lpc' = [lpc EXCEPT ![t] = "lockGlobal"]
    /\ UNCHANGED <<loggerLock, streamLock, partial, torn>>
    /\ UNCHANGED nonLogVars

\* global.rs:15 LOGGER.lock().unwrap(): blocks while another thread holds
\* the guard of the global Logger.
LogLockGlobal(t) ==
    /\ lpc[t] = "lockGlobal"
    /\ loggerLock = NoThread
    /\ loggerLock' = t
    /\ lpc' = [lpc EXCEPT ![t] = "lockStream"]
    /\ UNCHANGED <<call, ncalls, streamLock, partial, torn>>
    /\ UNCHANGED nonLogVars

\* log.rs:26-31 self.stdout.lock().unwrap() or self.stderr.lock().unwrap().
LogLockStream(t) ==
    /\ lpc[t] = "lockStream"
    /\ streamLock[StreamOf(call[t].level)] = NoThread
    /\ streamLock' = [streamLock EXCEPT ![StreamOf(call[t].level)] = t]
    /\ lpc' = [lpc EXCEPT ![t] = "write"]
    /\ UNCHANGED <<call, ncalls, loggerLock, partial, torn>>
    /\ UNCHANGED nonLogVars

\* log.rs:38-41 writeln!: the formatted text goes to the stream, its
\* end-of-line after it; when the stream refuses the write (Err), the
\* eprintln! of line 40 writes a notice, a whole line, to the process's
\* standard error.
LogWrite(t) ==
    /\ lpc[t] = "write"
    /\ IF call[t].writeOk
         THEN /\ partial' = [partial EXCEPT ![StreamOf(call[t].level)] = Append(@, t)]
              /\ lpc' = [lpc EXCEPT ![t] = "writeEol"]
              /\ UNCHANGED <<call, torn>>
         ELSE /\ torn' = [torn EXCEPT !["stderr"] = @ \/ partial["stderr"] # <<>>]
              /\ call' = [call EXCEPT ![t].notices = @ + 1]
              /\ lpc' = [lpc EXCEPT ![t] = "unlockStream"]
              /\ UNCHANGED partial
    /\ UNCHANGED <<ncalls, loggerLock, streamLock>>
    /\ UNCHANGED nonLogVars

\* log.rs:38 writeln!, the end-of-line: the line is whole when every
\* fragment since the previous end-of-line is this call's.
LogWriteEol(t) ==
    /\ lpc[t] = "writeEol"
    /\ LET s == StreamOf(call[t].level)
       IN  /\ IF partial[s] = <<t>>
                THEN /\ call' = [call EXCEPT ![t].lines[s] = @ + 1]
                     /\ UNCHANGED torn
                ELSE /\ torn' = [torn EXCEPT ![s] = TRUE]
                     /\ UNCHANGED call
           /\ partial' = [partial EXCEPT ![s] = <<>>]
    /\ lpc' = [lpc EXCEPT ![t] = "unlockStream"]
    /\ UNCHANGED <<ncalls, loggerLock, streamLock>>
    /\ UNCHANGED nonLogVars

\* log.rs:42: log returns and `output`, the guard of the stream, drops.
LogUnlockStream(t) ==
    /\ lpc[t] = "unlockStream"
    /\ streamLock' = [streamLock EXCEPT ![StreamOf(call[t].level)] = NoThread]
    /\ lpc' = [lpc EXCEPT ![t] = "unlockGlobal"]
    /\ UNCHANGED <<call, ncalls, loggerLock, partial, torn>>
    /\ UNCHANGED nonLogVars

\* global.rs:15, end of the macro's statement: the guard of LOGGER drops
\* and the call is over.
LogUnlockGlobal(t) ==
    /\ lpc[t] = "unlockGlobal"
    /\ loggerLock' = NoThread
    /\ lpc' = [lpc EXCEPT ![t] = "idle"]
    /\ call' = [call EXCEPT ![t] = NoCall]
    /\ UNCHANGED <<ncalls, streamLock, partial, torn>>
    /\ UNCHANGED nonLogVars

Init ==
    /\ poolPc = "none"
    /\ size = 0
    /\ sender = "None"
    /\ thread = [w \in WorkerIds |-> "absent"]
    /\ dropIdx = 0
    /\ dropCalls = 0
    /\ pendingAtDrop = 0
    /\ queue = <<>>
    /\ rxLock = NoWorker
    /\ rxPoisoned = FALSE
    /\ pc = [w \in WorkerIds |-> "unspawned"]
    /\ message = [w \in WorkerIds |-> "none"]
    /\ cur = [w \in WorkerIds |-> NoJob]
    /\ nsub = 0
    /\ kind = [j \in JobIds |-> "none"]
    /\ runs = [j \in JobIds |-> 0]
    /\ done = {}
    /\ failed = {}
    /\ discarded = {}
    /\ lastExec = "none"
    /\ lastExecAt = "none"
    /\ nfail = 0
    /\ RouterInit
    /\ ConnInit
    /\ LogInit

\* ------------------------------------------------------ ThreadPool::new
\* Mutant of NewBegin: the assert!(size > 0) is missing.
NewBegin_NoAssert(n) ==
    /\ poolPc = "none"
    /\ size' = n
    /\ poolPc' = "new"
    /\ sender' = "Some"
    /\ UNCHANGED <<thread, dropIdx, dropCalls, pendingAtDrop>>
    /\ UNCHANGED <<chanVars, workerVars, jobVars, callVars>>
    /\ UNCHANGED extVars

\* thread.rs:24-30: assert!(size > 0), then the channel, the Arc<Mutex<..>>
\* and the empty Vec.
NewBegin(n) ==
    /\ poolPc = "none"
    /\ size' = n
    /\ IF n > 0
         THEN /\ poolPc' = "new"
              /\ sender' = "Some"
         ELSE /\ poolPc' = "newPanicked"
              /\ sender' = sender
    /\ UNCHANGED <<thread, dropIdx, dropCalls, pendingAtDrop>>
    /\ UNCHANGED <<chanVars, workerVars, jobVars, callVars>>
    /\ UNCHANGED extVars

\* thread.rs:32-34 with Worker::new (73-93): one turn of `for id in 0..size`
\* spawns the thread of worker `id` and pushes Worker {id, Some(handle)}.
NewSpawn ==
    /\ poolPc = "new"
    /\ Cardinality(Spawned) < size
    /\ LET id == Cardinality(Spawned) IN
         /\ pc' = [pc EXCEPT ![id] = "lock"]
         /\ thread' = [thread EXCEPT ![id] = "Some"]
    /\ UNCHANGED <<poolPc, size, sender, dropIdx, dropCalls, pendingAtDrop>>
    /\ UNCHANGED <<message, cur>>
    /\ UNCHANGED <<chanVars, jobVars, callVars>>
    /\ UNCHANGED extVars

\* thread.rs:36-39: the pool value is returned; the constructor's clone of
\* the Arc goes out of scope.
NewReturn ==
    /\ poolPc = "new"
    /\ Cardinality(Spawned) = size
    /\ poolPc' = "alive"
    /\ UNCHANGED <<size, sender, thread, dropIdx, dropCalls, pendingAtDrop>>
    /\ UNCHANGED <<chanVars, workerVars, jobVars, callVars>>
    /\ UNCHANGED extVars

\* -------------------------------------------------- ThreadPool::execute
\* thread.rs:46-48: self.sender.as_ref().unwrap() panics on None;
\* send(job) is Err once the Receiver is gone and .unwrap() panics on it;
\* otherwise the job is appended to the unbounded buffer.
Execute(k) ==
    /\ poolPc \in {"alive", "dropVisit", "dropJoin", "dropped"}
    /\ lastExecAt' = poolPc
    /\ IF sender = "None" \/ ~ReceiverAlive
         THEN /\ nfail < MaxFailedCalls
              /\ lastExec' = "panic"
              /\ nfail' = nfail + 1
              /\ UNCHANGED <<queue, nsub, kind>>
         ELSE /\ nsub < MaxJobs
              /\ nsub' = nsub + 1
              /\ kind' = [kind EXCEPT ![nsub + 1] = k]
              /\ queue' = Append(queue, nsub + 1)
              /\ lastExec' = "ok"
              /\ nfail' = nfail
    /\ UNCHANGED <<rxLock, rxPoisoned, runs, done, failed, discarded>>
    /\ UNCHANGED <<poolVars, workerVars>>
    /\ UNCHANGED extVars

\* ------------------------------------------------------ the worker loop
\* A worker thread ends (its closure returns or unwinds): its clone of the
\* Arc is dropped, and with the last clone the Receiver and every job still
\* buffered in the channel.
EndThread(w, how) ==
    /\ pc' = [pc EXCEPT ![w] = how]
    /\ IF ReceiverAliveWith([pc EXCEPT ![w] = how], poolPc)
         THEN UNCHANGED <<queue, discarded>>
         ELSE /\ queue' = <<>>
              /\ discarded' = discarded \cup Range(queue)

\* Mutant of WorkerLock: the guard of the previous turn lives as long as the
\* job it delivered (while let Ok(job) = receiver.lock().unwrap().recv()),
\* so the mutex cannot be taken while a job runs.
WorkerLock_HeldAcrossJob(w) ==
    /\ pc[w] = "lock"
    /\ rxLock = NoWorker
    /\ \A v \in WorkerIds : pc[v] # "run"
    /\ rxLock' = w
    /\ pc' = [pc EXCEPT ![w] = "recv"]
    /\ UNCHANGED <<queue, discarded>>
    /\ UNCHANGED <<rxPoisoned, message, cur>>
    /\ UNCHANGED <<nsub, kind, runs, done, failed>>
    /\ UNCHANGED <<poolVars, callVars>>
    /\ UNCHANGED extVars

\* Mutant of WorkerLock: lock() does not exclude; it returns a guard
\* whether or not another worker holds one.
WorkerLock_NoExclusion(w) ==
    /\ pc[w] = "lock"
    /\ IF rxPoisoned
         THEN /\ EndThread(w, "panicked")
              /\ UNCHANGED rxLock
         ELSE /\ rxLock' = w
              /\ pc' = [pc EXCEPT ![w] = "recv"]
              /\ UNCHANGED <<queue, discarded>>
    /\ UNCHANGED <<rxPoisoned, message, cur>>
    /\ UNCHANGED <<nsub, kind, runs, done, failed>>
    /\ UNCHANGED <<poolVars, callVars>>
    /\ UNCHANGED extVars

\* thread.rs:75 receiver.lock().unwrap(): blocks while another worker holds
\* the guard; a poisoned mutex makes unwrap panic.
WorkerLock(w) ==
    /\ pc[w] = "lock"
    /\ rxLock = NoWorker
    /\ IF rxPoisoned
         THEN /\ EndThread(w, "panicked")
              /\ UNCHANGED rxLock
         ELSE /\ rxLock' = w
              /\ pc' = [pc EXCEPT ![w] = "recv"]
              /\ UNCHANGED <<queue, discarded>>
    /\ UNCHANGED <<rxPoisoned, message, cur>>
    /\ UNCHANGED <<nsub, kind, runs, done, failed>>
    /\ UNCHANGED <<poolVars, callVars>>
    /\ UNCHANGED extVars

\* Mutant of WorkerRecv: try_recv() in place of recv(), which is Err on an
\* empty buffer whether or not the Sender lives.
WorkerRecv_TryRecv(w) ==
    /\ pc[w] = "recv"
    /\ rxLock = w
    /\ IF queue # <<>>
         THEN /\ message' = [message EXCEPT ![w] = "ok"]
              /\ cur' = [cur EXCEPT ![w] = Head(queue)]
              /\ queue' = Tail(queue)
         ELSE /\ message' = [message EXCEPT ![w] = "err"]
              /\ UNCHANGED <<cur, queue>>
    /\ pc' = [pc EXCEPT ![w] = "unlock"]
    /\ UNCHANGED <<rxLock, rxPoisoned>>
    /\ UNCHANGED <<poolVars, jobVars, callVars>>
    /\ UNCHANGED extVars

\* Mutant of WorkerRecv: the newest buffered job is returned, not the oldest.
WorkerRecv_Lifo(w) ==
    /\ pc[w] = "recv"
    /\ rxLock = w
    /\ IF queue # <<>>
         THEN /\ message' = [message EXCEPT ![w] = "ok"]
              /\ cur' = [cur EXCEPT ![w] = queue[Len(queue)]]
              /\ queue' = SubSeq(queue, 1, Len(queue) - 1)
         ELSE /\ ~SenderAlive
              /\ message' = [message EXCEPT ![w] = "err"]
              /\ UNCHANGED <<cur, queue>>
    /\ pc' = [pc EXCEPT ![w] = "unlock"]
    /\ UNCHANGED <<rxLock, rxPoisoned>>
    /\ UNCHANGED <<poolVars, jobVars, callVars>>
    /\ UNCHANGED extVars

\* thread.rs:75 .recv(): returns the oldest buffered job; blocks while the
\* buffer is empty and the Sender lives; Err once it is empty and the Sender
\* is dropped.
WorkerRecv(w) ==
    /\ pc[w] = "recv"
    /\ rxLock = w
    /\ IF queue # <<>>
         THEN /\ message' = [message EXCEPT ![w] = "ok"]
              /\ cur' = [cur EXCEPT ![w] = Head(queue)]
              /\ queue' = Tail(queue)
         ELSE /\ ~SenderAlive
              /\ message' = [message EXCEPT ![w] = "err"]
              /\ UNCHANGED <<cur, queue>>
    /\ pc' = [pc EXCEPT ![w] = "unlock"]
    /\ UNCHANGED <<rxLock, rxPoisoned>>
    /\ UNCHANGED <<poolVars, jobVars, callVars>>
    /\ UNCHANGED extVars

\* thread.rs:75, end of the let statement: the temporary MutexGuard drops.
WorkerUnlock(w) ==
    /\ pc[w] = "unlock"
    /\ rxLock = w
    /\ rxLock' = NoWorker
    /\ pc' = [pc EXCEPT ![w] = "match"]
    /\ UNCHANGED <<queue, rxPoisoned, message, cur>>
    /\ UNCHANGED <<poolVars, jobVars, callVars>>
    /\ UNCHANGED extVars

\* Mutant of WorkerMatch: the job is handed to a thread of its own and the
\* loop goes round without waiting for it.
WorkerMatch_Detached(w) ==
    /\ pc[w] = "match"
    /\ IF message[w] = "ok"
         THEN /\ pc' = [pc EXCEPT ![w] = "lock"]
              /\ runs' = [runs EXCEPT ![cur[w]] = @ + 1]
              /\ cur' = [cur EXCEPT ![w] = NoJob]
              /\ UNCHANGED <<queue, discarded>>
         ELSE /\ EndThread(w, "exited")
              /\ UNCHANGED <<runs, cur>>
    /\ message' = [message EXCEPT ![w] = "none"]
    /\ UNCHANGED <<rxLock, rxPoisoned>>
    /\ UNCHANGED <<nsub, kind, done, failed>>
    /\ UNCHANGED <<poolVars, callVars>>
    /\ UNCHANGED extVars

\* thread.rs:77-86: Ok(job) calls job(); Err(_) breaks out of the loop and
\* the thread ends.
WorkerMatch(w) ==
    /\ pc[w] = "match"
    /\ IF message[w] = "ok"
         THEN /\ pc' = [pc EXCEPT ![w] = "run"]
              /\ runs' = [runs EXCEPT ![cur[w]] = @ + 1]
              /\ UNCHANGED <<queue, discarded>>
         ELSE /\ EndThread(w, "exited")
              /\ UNCHANGED runs
    /\ message' = [message EXCEPT ![w] = "none"]
    /\ UNCHANGED <<rxLock, rxPoisoned, cur>>
    /\ UNCHANGED <<nsub, kind, done, failed>>
    /\ UNCHANGED <<poolVars, callVars>>
    /\ UNCHANGED extVars

\* thread.rs:80 job() returns: the loop goes round to line 75.
JobReturn(w) ==
    /\ pc[w] = "run"
    /\ kind[cur[w]] = "returns"
    /\ done' = done \cup {cur[w]}
    /\ cur' = [cur EXCEPT ![w] = NoJob]
    /\ pc' = [pc EXCEPT ![w] = "lock"]
    /\ UNCHANGED <<message, nsub, kind, runs, failed, discarded>>
    /\ UNCHANGED <<poolVars, chanVars, callVars>>
    /\ UNCHANGED extVars

\* thread.rs:80 job() panics: nothing in the loop catches the unwind, so it
\* leaves the closure given to thread::spawn and the thread ends. A guard
\* held at that moment would poison its mutex.
JobPanic(w) ==
    /\ pc[w] = "run"
    /\ kind[cur[w]] = "panics"
    /\ failed' = failed \cup {cur[w]}
    /\ cur' = [cur EXCEPT ![w] = NoJob]
    /\ EndThread(w, "panicked")
    /\ rxPoisoned' = (rxPoisoned \/ rxLock = w)
    /\ rxLock' = IF rxLock = w THEN NoWorker ELSE rxLock
    /\ UNCHANGED <<message, nsub, kind, runs, done>>
    /\ UNCHANGED <<poolVars, callVars>>
    /\ UNCHANGED extVars

\* A job of the kind "barrier" blocks inside job() until as many barrier
\* jobs as the pool has workers have been called, then returns (the jobs of
\* the concurrency scenario: each waits until all of them have started).
BarrierOpen ==
    Cardinality({j \in JobIds : kind[j] = "barrier" /\ runs[j] >= 1}) >= size

\* thread.rs:80 job() of a barrier job returns.
BarrierReturn(w) ==
    /\ pc[w] = "run"
    /\ kind[cur[w]] = "barrier"
    /\ BarrierOpen
    /\ done' = done \cup {cur[w]}
    /\ cur' = [cur EXCEPT ![w] = NoJob]
    /\ pc' = [pc EXCEPT ![w] = "lock"]
    /\ UNCHANGED <<message, nsub, kind, runs, failed, discarded>>
    /\ UNCHANGED <<poolVars, chanVars, callVars>>
    /\ UNCHANGED extVars

\* ------------------------------------------------- Drop for ThreadPool
\* Mutant of DropBegin: the Sender is left in place, the channel stays open.
DropBegin_KeepSender ==
    /\ poolPc \in {"alive", "dropped"}
    /\ dropCalls < MaxDrops
    /\ dropCalls' = dropCalls + 1
    /\ dropIdx' = 0
    /\ poolPc' = "dropVisit"
    /\ pendingAtDrop' = IF dropCalls = 0 THEN Pending ELSE pendingAtDrop
    /\ UNCHANGED <<size, thread, sender>>
    /\ UNCHANGED <<chanVars, workerVars, jobVars, callVars>>
    /\ UNCHANGED extVars

\* thread.rs:54 drop(self.sender.take()): the field becomes None and the
\* Sender, if there was one, is dropped, which closes the channel.
DropBegin ==
    /\ poolPc \in {"alive", "dropped"}
    /\ dropCalls < MaxDrops
    /\ dropCalls' = dropCalls + 1
    /\ sender' = "None"
    /\ dropIdx' = 0
    /\ poolPc' = "dropVisit"
    /\ pendingAtDrop' = IF dropCalls = 0 THEN Pending ELSE pendingAtDrop
    /\ UNCHANGED <<size, thread>>
    /\ UNCHANGED <<chanVars, workerVars, jobVars, callVars>>
    /\ UNCHANGED extVars

\* Mutant of DropVisit: the handle is joined without the Option around it,
\* whether or not an earlier drop has taken it.
DropVisit_JoinAlways ==
    /\ poolPc = "dropVisit"
    /\ dropIdx < size
    /\ thread' = [thread EXCEPT ![dropIdx] = "None"]
    /\ poolPc' = "dropJoin"
    /\ UNCHANGED <<size, sender, dropIdx, dropCalls, pendingAtDrop>>
    /\ UNCHANGED <<chanVars, workerVars, jobVars, callVars>>
    /\ UNCHANGED extVars

\* thread.rs:57-60: next worker of the loop; worker.thread.take() leaves
\* None in the field and yields the handle if there was one.
DropVisit ==
    /\ poolPc = "dropVisit"
    /\ dropIdx < size
    /\ IF thread[dropIdx] = "Some"
         THEN /\ thread' = [thread EXCEPT ![dropIdx] = "None"]
              /\ poolPc' = "dropJoin"
              /\ UNCHANGED dropIdx
         ELSE /\ dropIdx' = dropIdx + 1
              /\ UNCHANGED <<thread, poolPc>>
    /\ UNCHANGED <<size, sender, dropCalls, pendingAtDrop>>
    /\ UNCHANGED <<chanVars, workerVars, jobVars, callVars>>
    /\ UNCHANGED extVars

\* Mutant of DropJoin: the handle is dropped (the thread detached) instead
\* of joined, so drop does not wait for the worker.
DropJoin_NoWait ==
    /\ poolPc = "dropJoin"
    /\ poolPc' = "dropVisit"
    /\ dropIdx' = dropIdx + 1
    /\ UNCHANGED <<size, sender, thread, dropCalls, pendingAtDrop>>
    /\ UNCHANGED <<chanVars, workerVars, jobVars, callVars>>
    /\ UNCHANGED extVars

\* thread.rs:61 thread.join().unwrap(): blocks until the worker's thread has
\* ended; join is Err when the thread panicked and unwrap then panics.
DropJoin ==
    /\ poolPc = "dropJoin"
    /\ Terminated(dropIdx)
    /\ IF pc[dropIdx] = "panicked"
         THEN /\ poolPc' = "dropPanicked"
              /\ UNCHANGED dropIdx
         ELSE /\ poolPc' = "dropVisit"
              /\ dropIdx' = dropIdx + 1
    /\ UNCHANGED <<size, sender, thread, dropCalls, pendingAtDrop>>
    /\ UNCHANGED <<chanVars, workerVars, jobVars, callVars>>
    /\ UNCHANGED extVars

\* thread.rs:63-64: the loop is over and drop returns.
DropReturn ==
    /\ poolPc = "dropVisit"
    /\ dropIdx = size
    /\ poolPc' = "dropped"
    /\ UNCHANGED <<size, sender, thread, dropIdx, dropCalls, pendingAtDrop>>
    /\ UNCHANGED <<chanVars, workerVars, jobVars, callVars>>
    /\ UNCHANGED extVars

\* ------------------------------------------------------- specifications
WorkerStep(w) ==
    \/ WorkerLock(w)
    \/ WorkerRecv(w)
    \/ WorkerUnlock(w)
    \/ WorkerMatch(w)
    \/ JobReturn(w)

DropStep ==
    \/ DropVisit
    \/ DropJoin
    \/ DropReturn

Next ==
    \/ \E n \in 0 .. MaxSize : NewBegin(n)
    \/ NewSpawn
    \/ NewReturn
    \/ \E k \in JobKinds : Execute(k)
    \/ \E w \in WorkerIds : WorkerStep(w)
    \/ \E w \in WorkerIds : JobPanic(w)
    \/ DropBegin
    \/ DropStep

Spec == Init /\ [][Next]_vars

\* Every job returns, every worker thread and the thread running drop are
\* scheduled again and again. Calls of execute and the start of drop are the
\* environment's choice and get no fairness.
NextReturning ==
    \/ \E n \in 0 .. MaxSize : NewBegin(n)
    \/ NewSpawn
    \/ NewReturn
    \/ Execute("returns")
    \/ \E w \in WorkerIds : WorkerStep(w)
    \/ DropBegin
    \/ DropStep

Fairness ==
    /\ \A w \in WorkerIds : WF_vars(WorkerStep(w))
    /\ WF_vars(DropStep)

LiveSpec == Init /\ [][NextReturning]_vars /\ Fairness

\* Every job waits for the others at a barrier and then returns; the same
\* fairness as LiveSpec.
WorkerStepConcurrent(w) ==
    \/ WorkerLock(w)
    \/ WorkerRecv(w)
    \/ WorkerUnlock(w)
    \/ WorkerMatch(w)
    \/ BarrierReturn(w)

NextConcurrent ==
    \/ \E n \in 0 .. MaxSize : NewBegin(n)
    \/ NewSpawn
    \/ NewReturn
    \/ Execute("barrier")
    \/ \E w \in WorkerIds : WorkerStepConcurrent(w)
    \/ DropBegin
    \/ DropStep

FairnessConcurrent ==
    /\ \A w \in WorkerIds : WF_vars(WorkerStepConcurrent(w))
    /\ WF_vars(DropStep)

ConcSpec == Init /\ [][NextConcurrent]_vars /\ FairnessConcurrent

\* The router alone: any add_route and get_route calls, in any order.
RouterNext ==
    \/ \E m \in Methods, p \in Paths, h \in Handlers : AddRouteCall(m, p, h)
    \/ \E m \in Methods, p \in Paths : GetRouteCall(m, p)

RouterSpec == Init /\ [][RouterNext]_vars

\* One connection served by main's router.
ConnNext ==
    \/ MainAddRoute
    \/ \E x \in Symbols : ClientSends(x)
    \/ \E peer \in BOOLEAN, read \in {"line", "eof", "err"},
          fileOk \in BOOLEAN, writeOk \in BOOLEAN :
            HandleConnection(peer, read, fileOk, writeOk)

ConnSpec == Init /\ [][ConnNext]_vars

\* Threads that log concurrently through the macros of logger/global.rs.
LogStep(t) ==
    \/ LogLockGlobal(t)
    \/ LogLockStream(t)
    \/ LogWrite(t)
    \/ LogWriteEol(t)
    \/ LogUnlockStream(t)
    \/ LogUnlockGlobal(t)

LogNext ==
    \/ \E t \in LogThreads, level \in Levels, writeOk \in BOOLEAN :
          LogCall(t, level, writeOk)
    \/ \E t \in LogThreads : LogStep(t)

\* Every thread inside a logging call is scheduled again.
FairnessLog == \A t \in LogThreads : WF_vars(LogStep(t))

LogSpec == Init /\ [][LogNext]_vars /\ FairnessLog

TypeOK ==
    /\ lpc \in [LogThreads -> {"idle", "lockGlobal", "lockStream", "write",
                               "writeEol", "unlockStream", "unlockGlobal"}]
    /\ ncalls \in [LogThreads -> 0 .. MaxLogCalls]
    /\ loggerLock \in LogThreads \cup {NoThread}
    /\ streamLock \in [Streams -> LogThreads \cup {NoThread}]
    /\ torn \in [Streams -> BOOLEAN]
    /\ poolPc \in {"none", "newPanicked", "new", "alive", "dropVisit",
                   "dropJoin", "dropped", "dropPanicked"}
    /\ size \in 0 .. MaxSize
    /\ sender \in {"Some", "None"}
    /\ thread \in [WorkerIds -> {"Some", "None", "absent"}]
    /\ dropIdx \in 0 .. MaxSize
    /\ dropCalls \in 0 .. MaxDrops
    /\ pendingAtDrop \in 0 .. MaxJobs
    /\ Range(queue) \subseteq JobIds
    /\ rxLock \in WorkerIds \cup {NoWorker}
    /\ rxPoisoned \in BOOLEAN
    /\ pc \in [WorkerIds -> {"unspawned", "lock", "recv", "unlock", "match",
                             "run", "exited", "panicked"}]
    /\ message \in [WorkerIds -> {"none", "ok", "err"}]
    /\ cur \in [WorkerIds -> JobIds \cup {NoJob}]
    /\ nsub \in 0 .. MaxJobs
    /\ kind \in [JobIds -> JobKinds \cup {"barrier", "none"}]
    /\ runs \in [JobIds -> Nat]
    /\ done \subseteq JobIds
    /\ failed \subseteq JobIds
    /\ discarded \subseteq JobIds
    /\ lastExec \in {"none", "ok", "panic"}
    /\ lastExecAt \in {"none", "alive", "dropVisit", "dropJoin", "dropped"}
    /\ nfail \in 0 .. MaxFailedCalls
    /\ routes \in [Paths -> [method : Methods \cup {"none"}, handler : Handlers \cup {"none"}]]
    /\ Len(adds) <= MaxAdds

\* ------------------------------------------------------------ the claims
Submitted == 1 .. nsub
Holders(j) == {w \in WorkerIds : cur[w] = j}
Finished == done \cup failed
AfterShutdownBegan == {"dropVisit", "dropJoin", "dropped"}

\* No job is called twice, and a job is never held by two workers.
NoDuplicateExecution ==
    \A j \in JobIds :
        /\ runs[j] <= 1
        /\ Cardinality(Holders(j)) <= 1
        /\ (j \in Finished => runs[j] = 1 /\ Holders(j) = {})

\* C1: every accepted job is at every state in exactly one of: buffered in
\* the channel, held by exactly one worker, finished; no job is called more
\* than once; and once drop has returned every accepted job was called
\* exactly once.
C1_ExactlyOnce ==
    /\ NoDuplicateExecution
    /\ \A j \in Submitted :
         \/ j \in Range(queue) /\ Holders(j) = {} /\ j \notin Finished
         \/ j \notin Range(queue) /\ Cardinality(Holders(j)) = 1 /\ j \notin Finished
         \/ j \notin Range(queue) /\ Holders(j) = {} /\ j \in Finished
    /\ (poolPc = "dropped" => \A j \in Submitted : runs[j] = 1)

\* The part of C1 that every reachable state satisfies, panicking jobs included.
C1_NoDuplicateAndCountAtReturn ==
    /\ NoDuplicateExecution
    /\ (poolPc = "dropped" => \A j \in Submitted : runs[j] = 1 /\ j \in done)

\* C2: under fair scheduling of the workers and with jobs that return, every
\* job accepted by execute is eventually called by a worker and returns.
C2_EveryJobEventuallyRuns ==
    \A j \in JobIds : (nsub >= j) ~> (runs[j] = 1 /\ j \in done)

C2_Witness ==
    /\ poolPc = "alive"
    /\ nsub >= 2
    /\ done = Submitted

\* C3: when drop has returned, every worker thread has exited, nothing is
\* buffered, no worker holds a job and every accepted job has finished.
C3_ShutdownReturnsAfterAllJobs ==
    poolPc = "dropped" =>
        /\ \A w \in 0 .. (size - 1) : pc[w] = "exited"
        /\ queue = <<>>
        /\ \A w \in WorkerIds : cur[w] = NoJob
        /\ done = Submitted
        /\ discarded = {}

C3_Witness ==
    /\ poolPc = "dropped"
    /\ dropCalls = 1
    /\ pendingAtDrop >= 2

\* C4: a panicking job does not end its worker's thread: while the pool is
\* alive the number of workers able to take jobs equals the pool size.
C4_PanicKeepsWorker ==
    poolPc = "alive" =>
        Cardinality({w \in WorkerIds : pc[w] \notin {"unspawned", "exited", "panicked"}}) = size

C6_NewZeroFailsFast ==
    (poolPc # "none" /\ size = 0) =>
        /\ poolPc = "newPanicked"
        /\ Spawned = {}
        /\ \A w \in WorkerIds : thread[w] = "absent"
        /\ sender = "None"
        /\ ~ENABLED Next

C6_Witness == poolPc = "newPanicked" /\ size = 0

\* C7: with jobs that return and fair scheduling, a drop that has begun
\* returns, and every worker observes the closed, empty channel and exits.
C7_ShutdownTerminates ==
    /\ (poolPc \in {"dropVisit", "dropJoin"}) ~> (poolPc = "dropped")
    /\ (dropCalls >= 1) ~> (\A w \in 0 .. (size - 1) : pc[w] = "exited")

C7_Witness ==
    /\ poolPc = "dropped"
    /\ size >= 2
    /\ pendingAtDrop >= 2
    /\ \A w \in 0 .. (size - 1) : pc[w] = "exited"

\* C8: no job buffered when the sender is dropped is lost: none is destroyed
\* uncalled, and a worker gets Err from recv only when the channel is closed
\* and empty.
C8_CloseDropsNoJob ==
    /\ (dropCalls >= 1 /\ pendingAtDrop >= 1) => discarded = {}
    /\ \A w \in WorkerIds : message[w] = "err" => (sender = "None" /\ queue = <<>>)

\* The part of C8 that every reachable state satisfies.
C8_ExhaustedOnlyWhenClosedAndEmpty ==
    \A w \in WorkerIds : message[w] = "err" => (sender = "None" /\ queue = <<>>)

\* C9: running drop again on a pool whose drop has returned never blocks,
\* never fails, joins no thread, and leaves sender absent and every thread
\* handle taken.
C9_SecondShutdownNoOp ==
    dropCalls >= 2 =>
        /\ poolPc \in {"dropVisit", "dropped"}
        /\ sender = "None"
        /\ \A w \in WorkerIds : thread[w] # "Some"
        /\ \A w \in 0 .. (size - 1) : pc[w] = "exited"
        /\ queue = <<>>
        /\ (poolPc = "dropVisit" => ENABLED DropStep)

C9_Witness == dropCalls >= 2 /\ poolPc = "dropped" /\ size >= 2

\* C10: a worker holds at most one job and receives the next only after the
\* one it held has finished, so at most `size` jobs are in execution; with
\* one worker a job starts only after every earlier job has finished.
C10_OneJobPerWorker ==
    /\ Cardinality({j \in JobIds : runs[j] >= 1 /\ j \notin Finished}) <= size
    /\ \A w \in WorkerIds : pc[w] \in {"lock", "recv"} => cur[w] = NoJob
    /\ \A j \in JobIds : (runs[j] >= 1 /\ j \notin Finished) => Holders(j) # {}
    /\ (size = 1 => \A j \in JobIds : runs[j] >= 1 =>
                       \A i \in 1 .. (j - 1) : i \in Finished)

C10_Witness ==
    /\ size = 1
    /\ runs[2] = 1
    /\ 1 \in done
    /\ 2 \notin Finished

\* C11: with as many barrier jobs submitted as the pool has workers (two
\* jobs on a pool of two), every barrier job is called and returns; and a
\* buffered job can always be moved on by a worker that holds no job,
\* whatever the other workers are running.
BarrierJobs == {j \in JobIds : kind[j] = "barrier"}
IdleWorkers == {w \in WorkerIds : pc[w] \in {"lock", "recv"}}

C11_ConcurrentJobsComplete ==
    /\ \A j \in JobIds :
         (j \in BarrierJobs /\ Cardinality(BarrierJobs) >= size) ~> (j \in done)
    /\ [](\A w \in IdleWorkers :
            (queue # <<>> /\ rxLock \in {w, NoWorker}) =>
                ENABLED (WorkerLock(w) \/ WorkerRecv(w)))

C11_Witness ==
    /\ size = 2
    /\ Cardinality(BarrierJobs) = 2
    /\ BarrierJobs \subseteq done

\* The add_route calls made for exactly (m, p), and those made for path p.
AddsFor(m, p) == {i \in 1 .. Len(adds) : adds[i].method = m /\ adds[i].path = p}
AddsForPath(p) == {i \in 1 .. Len(adds) : adds[i].path = p}
Latest(S) == CHOOSE i \in S : \A k \in S : k <= i

\* C12: for every pair (m, p) that was registered, get_route(m, p) returns
\* the handler most recently registered for exactly (m, p), whatever was
\* registered for the same path under another method.
C12_KeyedByMethodAndPath ==
    \A m \in Methods, p \in Paths :
        AddsFor(m, p) # {} => get_route(m, p) = adds[Latest(AddsFor(m, p))].handler

\* C12 as amended: the map is keyed by the path alone. get_route(m, p)
\* returns the handler of the latest registration of path p when that
\* registration's method is m, and not-found otherwise; the latest get_route
\* call returned just that.
KeyedByPathResult(m, p) ==
    IF AddsForPath(p) # {} /\ adds[Latest(AddsForPath(p))].method = m
      THEN adds[Latest(AddsForPath(p))].handler
      ELSE NotFound

C12_KeyedByPath ==
    /\ [](\A m \in Methods, p \in Paths : get_route(m, p) = KeyedByPathResult(m, p))
    /\ [][lookup' # lookup =>
            lookup'.result = KeyedByPathResult(lookup'.method, lookup'.path)]_vars

\* GET /contact was registered, POST /contact after it, and GET /contact was
\* then looked up.
C12_Witness ==
    /\ \E i, k \in 1 .. Len(adds) :
         /\ i < k
         /\ adds[i].path = "/contact" /\ adds[i].method = "GET"
         /\ adds[k].path = "/contact" /\ adds[k].method = "POST"
         /\ AddsForPath("/contact") = {i, k}
    /\ lookup = [method |-> "GET", path |-> "/contact", result |-> NotFound]

\* C13: get_route(m, p) is not-found whenever no route was registered with
\* exactly the method m and exactly the path p (another method, or another
\* letter case of either, does not match).
C13_ExactMatch ==
    /\ \A m \in Methods, p \in Paths :
         AddsFor(m, p) = {} => get_route(m, p) = NotFound
    /\ (lookup.path \in Paths /\ AddsFor(lookup.method, lookup.path) = {} =>
          lookup.result = NotFound)

\* GET /contact is registered; GET /Contact, get /contact and POST /contact
\* are not, and GET /Contact was looked up.
C13_Witness ==
    /\ AddsFor("GET", "/contact") # {}
    /\ AddsFor("GET", "/Contact") = {}
    /\ AddsFor("get", "/contact") = {}
    /\ AddsFor("POST", "/contact") = {}
    /\ lookup = [method |-> "GET", path |-> "/Contact", result |-> NotFound]

\* What the request line asks for, read off the line itself.
RequestWords == SelectSeq(line, IsWord)
RequestValid ==
    /\ connIn.read = "line"
    /\ Len(RequestWords) = 3
    /\ RequestWords[1] = "GET"
    /\ RequestWords[3] = "HTTP/1.1"
RequestRouted ==
    /\ RequestValid
    /\ \E i \in 1 .. Len(adds) :
         adds[i].method = RequestWords[1] /\ adds[i].path = RequestWords[2]
ExpectedStatus ==
    IF ~RequestValid THEN StatusBadRequest
    ELSE IF ~RequestRouted THEN StatusNotFound
    ELSE StatusOk

\* C14: an invalid request line gets 400 and the router is not consulted, a
\* valid one without a route gets 404, every other one gets 200, and
\* exactly one response is written per connection.
C14_StatusAndOneResponse ==
    connPc = "closed" =>
        /\ resp.status = ExpectedStatus
        /\ (~RequestValid => ~resp.consulted)
        /\ resp.written = 1

\* C14 as amended: the status is decided as stated whenever peer_addr
\* succeeds; one response is written when peer_addr and the write succeed,
\* and none otherwise, handle_connection then returning Err.
C14_StatusAndAtMostOneResponse ==
    connPc = "closed" =>
        /\ (connIn.peer =>
              /\ resp.status = ExpectedStatus
              /\ (~RequestValid => ~resp.consulted)
              /\ (RequestValid => resp.consulted))
        /\ resp.written = (IF connIn.peer /\ connIn.writeOk THEN 1 ELSE 0)
        /\ (resp.result = "Ok") = (connIn.peer /\ connIn.writeOk)
        /\ (~connIn.peer => resp = [NoResponse EXCEPT !.result = "Err"])

\* A valid request for a path main registered no route for was answered
\* with the 404 page.
C14_Witness ==
    /\ connPc = "closed"
    /\ resp.written = 1
    /\ resp.status = StatusNotFound
    /\ resp.consulted
    /\ line = <<"GET", " ", "/contact", " ", "HTTP/1.1">>

\* The call of execute that send accepts: the job is appended to the queue.
ExecuteAppends ==
    \E k \in JobKinds : Execute(k) /\ queue' = Append(queue, nsub + 1)

\* C15: in every state where the pool is alive and not shut down, execute is
\* enabled and completes by appending the job to the queue, however many
\* workers are busy and however many jobs are queued.
C15_ExecuteNeverBlocks ==
    (poolPc = "alive" /\ nsub < MaxJobs) => ENABLED ExecuteAppends

\* The jobs taken from the channel by recv so far (execute numbers the jobs
\* in the order it enqueues them).
TakenJobs == Submitted \ (Range(queue) \cup discarded)

\* C16: jobs are taken from the channel in the order execute enqueued them:
\* the channel holds its jobs in submission order and the jobs taken so far
\* are the first ones submitted; with a single worker, jobs start in the
\* order they were submitted.
C16_DequeuedInSubmissionOrder ==
    /\ \A i \in 1 .. (Len(queue) - 1) : queue[i] < queue[i + 1]
    /\ TakenJobs = 1 .. Cardinality(TakenJobs)
    /\ \A w \in WorkerIds : cur[w] # NoJob => cur[w] \in TakenJobs
    /\ (size = 1 =>
          \A j \in Submitted : runs[j] >= 1 => \A i \in 1 .. (j - 1) : runs[i] >= 1)

\* Three jobs were submitted to a pool of one worker before it took any;
\* the first two have run and the worker is running the third.
C16_Witness ==
    /\ size = 1
    /\ done = {1, 2}
    /\ cur[0] = 3 /\ pc[0] = "run"
    /\ lastExec = "ok" /\ runs = <<1, 1, 1>>

\* The workers that hold the guard of the receiver mutex: those between
\* lock() returning and the end of the let statement of thread.rs:75.
Holding(w) == pc[w] \in {"recv", "unlock"}

\* The stream the claim assigns to a level.
ExpectedStream(level) == IF level = "ERROR" THEN "stderr" ELSE "stdout"
\* log has returned from the thread's call.
CallReturned(t) == lpc[t] \in {"unlockStream", "unlockGlobal"}
\* The call wrote one whole line, to the stream of its level, and nothing else.
OneWholeLine(t) ==
    /\ call[t].lines = [s \in Streams |->
                           IF s = ExpectedStream(call[t].level) THEN 1 ELSE 0]
    /\ call[t].notices = 0
\* The call wrote no line of its own and one failure notice to standard error.
NoticeOnly(t) ==
    /\ call[t].lines = [s \in Streams |-> 0]
    /\ call[t].notices = 1
\* No line of a stream holds the output of two calls.
NotInterleaved ==
    \A s \in Streams :
        /\ ~torn[s]
        /\ Len(partial[s]) <= 1
        /\ \A t \in LogThreads :
              t \in Range(partial[s]) =>
                  lpc[t] = "writeEol" /\ s = ExpectedStream(call[t].level)
\* Every logging call that was begun returns.
EveryCallCompletes == \A t \in LogThreads : (lpc[t] # "idle") ~> (lpc[t] = "idle")

C18_ReceiverLockDiscipline ==
    /\ Cardinality({w \in WorkerIds : Holding(w)}) <= 1
    /\ \A w \in WorkerIds : Holding(w) <=> rxLock = w
    /\ \A w \in WorkerIds : pc[w] \in {"match", "run"} => rxLock # w
    /\ ~rxPoisoned

\* One worker runs a job that will panic while the other holds the mutex in
\* recv.
C18_Witness ==
    \E w, v \in WorkerIds :
        /\ pc[w] = "run" /\ kind[cur[w]] = "panics"
        /\ pc[v] = "recv" /\ rxLock = v

\* C19: a call of execute made while the pool is alive and shutdown has not
\* begun never panics, whatever the earlier jobs did.
C19_ExecuteWhileAliveSucceeds ==
    lastExecAt = "alive" => lastExec # "panic"

====
